---------------------------- MODULE Spec2Model ----------------------------
(***************************************************************************)
(* A model of extensions/amp-animation/0.1/css-expr-ast.js: the CSS        *)
(* expression tree of amp-animation, its resolve()/calc() evaluation       *)
(* against a CssContext, and the calc() algebra.                           *)
(*                                                                         *)
(* The evaluation is a recursive tree walk.  It is modelled as a machine   *)
(* with an explicit call stack: one frame per resolve() call in progress,  *)
(* one step per call into a child and per return from it.                  *)
(*                                                                         *)
(* Numbers are JavaScript doubles in the source.  Here they are exact:     *)
(* a finite number is q + p*PI with q and p rationals (PI only enters     *)
(* through the angle conversions), and the two non-finite outcomes of a    *)
(* division by zero (Infinity, NaN) are values of their own.  Rounding     *)
(* and overflow of doubles are not modelled.                               *)
(***************************************************************************)
EXTENDS Integers, Sequences, FiniteSets, TLC

(***************************************************************************)
(* Exact arithmetic.                                                       *)
(***************************************************************************)
Abs(a) == IF a < 0 THEN -a ELSE a

RECURSIVE Gcd(_, _)
Gcd(a, b) == IF b = 0 THEN a ELSE Gcd(b, a % b)

\* The rational n/d (d # 0) in lowest terms with a positive denominator.
Rat(n, d) ==
  LET g == Gcd(Abs(n), Abs(d))
      s == IF d < 0 THEN -1 ELSE 1
  IN  <<(s * n) \div g, (s * d) \div g>>

RatAdd(a, b) == Rat(a[1] * b[2] + b[1] * a[2], a[2] * b[2])
RatMul(a, b) == Rat(a[1] * b[1], a[2] * b[2])
RatLess(a, b) == a[1] * b[2] < b[1] * a[2]
RatZero == <<0, 1>>

\* Finite number q + p*PI; Infinity (of either sign); NaN.
Fin(q, p) == [k |-> "fin", q |-> q, p |-> p]
Infinity == [k |-> "inf", q |-> RatZero, p |-> RatZero]
NaN == [k |-> "nan", q |-> RatZero, p |-> RatZero]
Num(i) == Fin(Rat(i, 1), RatZero)
Frac(n, d) == Fin(Rat(n, d), RatZero)
PI == Fin(RatZero, Rat(1, 1))
IsZero(x) == x.k = "fin" /\ x.q = RatZero /\ x.p = RatZero

\* isFinite(x)
isFinite(x) == x.k = "fin"

\* x + y
NumAdd(x, y) ==
  IF x.k = "nan" \/ y.k = "nan" THEN NaN
  ELSE IF x.k = "inf" \/ y.k = "inf" THEN Infinity
  ELSE Fin(RatAdd(x.q, y.q), RatAdd(x.p, y.p))

\* x * y.  At most one factor carries a multiple of PI: a product of two
\* angles never occurs (a multiplier is always a unitless number).
NumMul(x, y) ==
  IF x.k = "nan" \/ y.k = "nan" THEN NaN
  ELSE IF x.k = "inf" \/ y.k = "inf"
    THEN IF IsZero(x) \/ IsZero(y) THEN NaN ELSE Infinity
  ELSE Fin(RatMul(x.q, y.q),
           RatAdd(RatMul(x.q, y.p), RatMul(x.p, y.q)))

\* 1 / x for a unitless x
NumInv(x) ==
  IF x.k = "nan" THEN NaN
  ELSE IF x.k = "inf" THEN Num(0)
  ELSE IF x.q[1] = 0 THEN Infinity
  ELSE Fin(Rat(x.q[2], x.q[1]), RatZero)

\* Math.min, Math.max over numbers without a PI part
MathMin(x, y) == IF RatLess(y.q, x.q) THEN y ELSE x
MathMax(x, y) == IF RatLess(x.q, y.q) THEN y ELSE x

(***************************************************************************)
(* Strings whose characters the code looks at are sequences of one-letter  *)
(* strings; toLowerCase() is modelled letter by letter.                    *)
(***************************************************************************)
UpperCase ==
  <<"A", "B", "C", "D", "E", "F", "G", "H", "I", "J", "K", "L", "M",
    "N", "O", "P", "Q", "R", "S", "T", "U", "V", "W", "X", "Y", "Z">>
LowerCase ==
  <<"a", "b", "c", "d", "e", "f", "g", "h", "i", "j", "k", "l", "m",
    "n", "o", "p", "q", "r", "s", "t", "u", "v", "w", "x", "y", "z">>

ToLowerChar(c) ==
  IF \E i \in 1..Len(UpperCase) : UpperCase[i] = c
  THEN LowerCase[CHOOSE i \in 1..Len(UpperCase) : UpperCase[i] = c]
  ELSE c

\* String.prototype.toLowerCase
toLowerCase(s) == [i \in 1..Len(s) |-> ToLowerChar(s[i])]

\* A case-insensitive match of the literal `lit` at the start of `s`.
StartsWithIgnoreCase(s, lit) ==
  /\ Len(s) >= Len(lit)
  /\ \A i \in 1..Len(lit) : ToLowerChar(s[i]) = lit[i]

\* Mutant: the expression without its i flag.
FINAL_URL_RE_CaseSensitive(url) ==
  \/ (Len(url) >= 5 /\ SubSeq(url, 1, 5) = <<"d", "a", "t", "a", ":">>)
  \/ (Len(url) >= 6 /\ SubSeq(url, 1, 6) = <<"h", "t", "t", "p", "s", ":">>)

\* FINAL_URL_RE = /^(data|https)\:/i, as FINAL_URL_RE.test(url)
FINAL_URL_RE(url) ==
  \/ StartsWithIgnoreCase(url, <<"d", "a", "t", "a", ":">>)
  \/ StartsWithIgnoreCase(url, <<"h", "t", "t", "p", "s", ":">>)

\* DEG_TO_RAD = 2 * Math.PI / 360, GRAD_TO_RAD = Math.PI / 200
DEG_TO_RAD == NumMul(NumMul(Num(2), PI), Frac(1, 360))
GRAD_TO_RAD == NumMul(PI, Frac(1, 200))

(***************************************************************************)
(* The nodes.  A node is a record tagged with its class; null is a record  *)
(* of its own, and so is a thrown Error.                                   *)
(***************************************************************************)
Null == [t |-> "null"]
\* new Error(msg + detail): detail is a sequence of strings
Error(msg, detail) == [t |-> "Error", msg |-> msg, detail |-> detail]
IsError(v) == v.t = "Error"

CssPassthroughNode(css) == [t |-> "Passthrough", css |-> css]

CssConcatNode(array) == [t |-> "Concat", array |-> array]

CssUrlNode(url) == [t |-> "Url", url |-> url]

CssNumericNode(type, num, units) ==
  [t |-> "Numeric", type |-> type, num |-> num, units |-> toLowerCase(units)]

CssNumberNode(num) == CssNumericNode("NUM", num, <<>>)
CssPercentNode(num) == CssNumericNode("PRC", num, <<"%">>)
CssLengthNode(num, units) == CssNumericNode("LEN", num, units)
CssAngleNode(num, units) == CssNumericNode("ANG", num, units)
CssTimeNode(num, units) == CssNumericNode("TME", num, units)

\* opt_dimensions || null: an absent list of dimensions
NoDimensions == [isNull |-> TRUE, list |-> <<>>]
Dimensions(list) == [isNull |-> FALSE, list |-> list]

CssFuncNode(name, args, dimensions) ==
  [t |-> "Func", name |-> toLowerCase(name), args |-> args,
   dimensions |-> dimensions]

\* The translate family: the name and the dimensions follow from the suffix.
CssTranslateNode(suffix, args) ==
  CssFuncNode(<<"t", "r", "a", "n", "s", "l", "a", "t", "e">> \o suffix, args,
    IF suffix = <<>> THEN Dimensions(<<"w", "h">>)
    ELSE IF suffix = <<"x">> THEN Dimensions(<<"w">>)
    ELSE IF suffix = <<"y">> THEN Dimensions(<<"h">>)
    ELSE IF suffix = <<"z">> THEN Dimensions(<<"z">>)
    ELSE IF suffix = <<"3", "d">> THEN Dimensions(<<"w", "h", "z">>)
    ELSE NoDimensions)

CssVarNode(varName, def) == [t |-> "Var", varName |-> varName, def |-> def]

CssCalcNode(expr) == [t |-> "Calc", expr |-> expr]

CssCalcSumNode(left, right, op) ==
  [t |-> "CalcSum", left |-> left, right |-> right, op |-> op]

CssCalcProductNode(left, right, op) ==
  [t |-> "CalcProduct", left |-> left, right |-> right, op |-> op]

\* instanceof CssNumericNode, CssNumberNode, CssPercentNode
IsNumeric(n) == n.t = "Numeric"
IsNumber(n) == n.t = "Numeric" /\ n.type = "NUM"
IsPercent(n) == n.t = "Numeric" /\ n.type = "PRC"

(***************************************************************************)
(* isConst()                                                               *)
(***************************************************************************)
RECURSIVE isConst(_)
isConst(n) ==
  CASE n.t = "Concat" ->
         \A i \in 1..Len(n.array) : isConst(n.array[i])
    [] n.t = "Url" -> n.url = <<>> \/ FINAL_URL_RE(n.url)
    [] n.t = "Func" ->
         \A i \in 1..Len(n.args) : isConst(n.args[i])
    [] n.t \in {"Var", "Calc", "CalcSum", "CalcProduct"} -> FALSE
    [] OTHER -> TRUE

(***************************************************************************)
(* The context (CssContext).  The host implements it; the model keeps what *)
(* the interface documents: the values it reports and a stack of           *)
(* dimensions.  ctx is a record of the reported values:                    *)
(*   vars[name]        the node of a CSS variable, or Null                 *)
(*   fontSize, rootFontSize, viewport.width/height, element.width/height   *)
(***************************************************************************)
NoDimension == "null"

getVar(ctx, varName) == ctx.vars[varName]
getCurrentFontSize(ctx) == ctx.fontSize
getRootFontSize(ctx) == ctx.rootFontSize
getViewportSize(ctx) == ctx.viewport
getCurrentElementSize(ctx) == ctx.element
getDimension(ds) == IF ds = <<>> THEN NoDimension ELSE ds[Len(ds)]
pushDimension(ds, dim) == Append(ds, dim)
popDimension(ds) == IF ds = <<>> THEN ds ELSE SubSeq(ds, 1, Len(ds) - 1)

(***************************************************************************)
(* The unit algebra of the numeric nodes.  An operation that consults the  *)
(* context yields a record [out, ops]: its result (a node or an Error) and *)
(* the context operations it invoked, in order.                            *)
(***************************************************************************)
PX == <<"p", "x">>
EM == <<"e", "m">>
REM == <<"r", "e", "m">>
VW == <<"v", "w">>
VH == <<"v", "h">>
VMIN == <<"v", "m", "i", "n">>
VMAX == <<"v", "m", "a", "x">>
RAD == <<"r", "a", "d">>
DEG == <<"d", "e", "g">>
GRAD == <<"g", "r", "a", "d">>
MS == <<"m", "s">>
SEC == <<"s">>

Outcome(out, ops) == [out |-> out, ops |-> ops]

\* function unknownUnits(units)
unknownUnits(units) == Error("unknown units: ", units)

\* createSameUnits(num) of the five numeric classes
createSameUnits(n, num) ==
  CASE n.type = "NUM" -> CssNumberNode(num)
    [] n.type = "PRC" -> CssPercentNode(num)
    [] n.type = "LEN" -> CssLengthNode(num, n.units)
    [] n.type = "ANG" -> CssAngleNode(num, n.units)
    [] n.type = "TME" -> CssTimeNode(num, n.units)

\* CssLengthNode.norm(context)
CssLengthNode_norm(n, ctx) ==
  IF n.units = PX THEN Outcome(n, <<>>)
  ELSE IF n.units = EM \/ n.units = REM THEN
    LET fontSize == IF n.units = EM THEN getCurrentFontSize(ctx)
                    ELSE getRootFontSize(ctx)
    IN  Outcome(CssLengthNode(NumMul(n.num, fontSize), PX),
                <<IF n.units = EM THEN "getCurrentFontSize"
                  ELSE "getRootFontSize">>)
  ELSE IF n.units \in {VW, VH, VMIN, VMAX} THEN
    LET vp == getViewportSize(ctx)
        vw == NumMul(NumMul(vp.width, n.num), Frac(1, 100))
        vh == NumMul(NumMul(vp.height, n.num), Frac(1, 100))
        num == IF n.units = VW THEN vw
               ELSE IF n.units = VH THEN vh
               ELSE IF n.units = VMIN THEN MathMin(vw, vh)
               ELSE MathMax(vw, vh)
    IN  Outcome(CssLengthNode(num, PX), <<"getViewportSize">>)
  ELSE Outcome(unknownUnits(n.units), <<>>)

\* CssAngleNode.norm()
CssAngleNode_norm(n) ==
  IF n.units = RAD THEN Outcome(n, <<>>)
  ELSE IF n.units = DEG
    THEN Outcome(CssAngleNode(NumMul(n.num, DEG_TO_RAD), RAD), <<>>)
  ELSE IF n.units = GRAD
    THEN Outcome(CssAngleNode(NumMul(n.num, GRAD_TO_RAD), RAD), <<>>)
  ELSE Outcome(unknownUnits(n.units), <<>>)

\* CssTimeNode.norm()
CssTimeNode_norm(n) ==
  IF n.units = MS THEN Outcome(n, <<>>)
  ELSE IF n.units = SEC
    THEN Outcome(CssTimeNode(NumMul(n.num, Num(1000)), MS), <<>>)
  ELSE Outcome(unknownUnits(n.units), <<>>)

\* norm(context), dispatched on the class; CssNumericNode.norm is the
\* identity, which CssNumberNode and CssPercentNode inherit.
norm(n, ctx) ==
  CASE n.type = "LEN" -> CssLengthNode_norm(n, ctx)
    [] n.type = "ANG" -> CssAngleNode_norm(n)
    [] n.type = "TME" -> CssTimeNode_norm(n)
    [] OTHER -> Outcome(n, <<>>)

\* Mutant: every dimension but w is taken for the height.
CssLengthNode_calcPercent_HeightElse(percent, ctx, ds) ==
  LET dim == getDimension(ds)
      size == getCurrentElementSize(ctx)
      side == IF dim = "w" THEN size.width ELSE size.height
  IN  Outcome(CssLengthNode(NumMul(NumMul(side, percent), Frac(1, 100)), PX),
              <<"getDimension", "getCurrentElementSize">>)

\* CssLengthNode.calcPercent(percent, context), with the context's stack ds
CssLengthNode_calcPercent(percent, ctx, ds) ==
  LET dim == getDimension(ds)
      size == getCurrentElementSize(ctx)
      side == IF dim = "w" THEN size.width
              ELSE IF dim = "h" THEN size.height
              ELSE Num(0)
  IN  Outcome(CssLengthNode(NumMul(NumMul(side, percent), Frac(1, 100)), PX),
              <<"getDimension", "getCurrentElementSize">>)

\* calcPercent(percent, context), dispatched on the class;
\* CssNumericNode.calcPercent throws.
calcPercent(n, percent, ctx, ds) ==
  IF n.type = "LEN" THEN CssLengthNode_calcPercent(percent, ctx, ds)
  ELSE Outcome(Error("cannot calculate percent for ", <<n.type>>), <<>>)

(***************************************************************************)
(* The calc() algebra: what CssCalcSumNode.calc and                        *)
(* CssCalcProductNode.calc do once both operands are resolved.  The result *)
(* is an Outcome whose out is a node, Null or a thrown Error.              *)
(***************************************************************************)
\* Mutant: operands in different units are not normalized.
UnitsDiffer_Never(left, right) == FALSE

\* left.units_ != right.units_
UnitsDiffer(left, right) == left.units # right.units

\* CssCalcSumNode.calc, from the comparison of the operands' types on:
\* both operands are numeric nodes here
CalcSumOfNumerics(left0, right0, op, ctx, ds) ==
  LET \* the percent step: [left, right, ops], or an Error in left or right
      pct ==
        IF left0.type # right0.type THEN
          IF IsPercent(left0) THEN
            LET r == calcPercent(right0, left0.num, ctx, ds)
            IN  [left |-> r.out, right |-> right0, ops |-> r.ops]
          ELSE IF IsPercent(right0) THEN
            LET r == calcPercent(left0, right0.num, ctx, ds)
            IN  [left |-> left0, right |-> r.out, ops |-> r.ops]
          ELSE [left |-> Error("left and right must be the same type", <<>>),
                right |-> right0, ops |-> <<>>]
        ELSE [left |-> left0, right |-> right0, ops |-> <<>>]
  IN
  IF IsError(pct.left) THEN Outcome(pct.left, pct.ops)
  ELSE IF IsError(pct.right) THEN Outcome(pct.right, pct.ops)
  ELSE
    LET differ == UnitsDiffer(pct.left, pct.right)
        nl == IF differ THEN norm(pct.left, ctx) ELSE Outcome(pct.left, <<>>)
        nr == IF differ THEN norm(pct.right, ctx)
              ELSE Outcome(pct.right, <<>>)
        sign == IF op = "+" THEN Num(1) ELSE Num(-1)
    IN
    IF IsError(nl.out) THEN Outcome(nl.out, pct.ops \o nl.ops)
    ELSE IF IsError(nr.out) THEN Outcome(nr.out, pct.ops \o nl.ops \o nr.ops)
    ELSE Outcome(
           createSameUnits(nl.out,
             NumAdd(nl.out.num, NumMul(sign, nr.out.num))),
           pct.ops \o nl.ops \o nr.ops)

\* Mutant: the operands are checked to be numeric before they are checked
\* for null.
CalcSum_NumericCheckFirst(left0, right0, op, ctx, ds) ==
  IF ~IsNumeric(left0) \/ ~IsNumeric(right0)
    THEN Outcome(Error("left and right must be both numerical", <<>>), <<>>)
  ELSE IF left0 = Null \/ right0 = Null THEN Outcome(Null, <<>>)
  ELSE CalcSumOfNumerics(left0, right0, op, ctx, ds)

\* CssCalcSumNode.calc, after the two resolve() calls
CalcSum(left0, right0, op, ctx, ds) ==
  IF left0 = Null \/ right0 = Null THEN Outcome(Null, <<>>)
  ELSE IF ~IsNumeric(left0) \/ ~IsNumeric(right0)
    THEN Outcome(Error("left and right must be both numerical", <<>>), <<>>)
  ELSE CalcSumOfNumerics(left0, right0, op, ctx, ds)

\* Mutant: a multiplication wants exactly one unitless number.
BaseAndMulti_ExactlyOneNumber(left, right, op) ==
  IF op = "*" THEN
    IF IsNumber(left) = IsNumber(right)
      THEN [base |->
              Error("one of sides in multiplication must be a number", <<>>),
            multi |-> NaN]
    ELSE IF IsNumber(left) THEN [base |-> right, multi |-> left.num]
    ELSE [base |-> left, multi |-> right.num]
  ELSE
    IF ~IsNumber(right)
      THEN [base |-> Error("denominator must be a number", <<>>),
            multi |-> NaN]
    ELSE [base |-> left, multi |-> NumInv(right.num)]

\* CssCalcProductNode.calc, the choice of base and multi for two numeric
\* operands: [base, multi], or an Error in base
BaseAndMulti(left, right, op) ==
  IF op = "*" THEN
    IF IsNumber(left) THEN [base |-> right, multi |-> left.num]
    ELSE IF ~IsNumber(right)
      THEN [base |->
              Error("one of sides in multiplication must be a number", <<>>),
            multi |-> NaN]
    ELSE [base |-> left, multi |-> right.num]
  ELSE
    IF ~IsNumber(right)
      THEN [base |-> Error("denominator must be a number", <<>>),
            multi |-> NaN]
    ELSE [base |-> left, multi |-> NumInv(right.num)]

\* Mutant: the result is not checked to be finite.
ProductOf_NoFiniteCheck(base, multi) ==
  createSameUnits(base, NumMul(base.num, multi))

\* CssCalcProductNode.calc, from num = base.num_ * multi on
ProductOf(base, multi) ==
  LET num == NumMul(base.num, multi)
  IN  IF ~isFinite(num) THEN Null ELSE createSameUnits(base, num)

\* CssCalcProductNode.calc, after the two resolve() calls
CalcProduct(left, right, op) ==
  IF left = Null \/ right = Null THEN Null
  ELSE IF ~IsNumeric(left) \/ ~IsNumeric(right)
    THEN Error("left and right must be both numerical", <<>>)
  ELSE
    LET bm == BaseAndMulti(left, right, op)
    IN  IF IsError(bm.base) THEN bm.base ELSE ProductOf(bm.base, bm.multi)

(***************************************************************************)
(* The evaluation machine.                                                 *)
(*   root    the node resolve() is called on                               *)
(*   ctx     the values the context reports                                *)
(*   entry   the context's stack of dimensions when resolve() is called    *)
(*   dims    the context's stack of dimensions                             *)
(*   stack   the resolve() calls in progress, the outermost first; a frame *)
(*           is [node, pc, i, acc]: pc is "resolve" on entry, "calc" in    *)
(*           calc() between two calls, "wait" while a call it made runs;   *)
(*           i is the loop index (the operand, the branch taken) and acc   *)
(*           the results collected so far                                  *)
(*   ret     the value the last finished call hands to its caller; at the  *)
(*           end, the result of the whole call or the Error it threw       *)
(*   status  "run", then "done" (returned) or "error" (threw)              *)
(*   events  the context operations invoked, the calc() calls entered and  *)
(*           the nodes constructed, in order, since resolve() was called   *)
(*   pass    1 for the first resolve(), 2 for a resolve() of its result    *)
(***************************************************************************)
VARIABLES root, ctx, entry, dims, stack, ret, status, events, pass

vars == <<root, ctx, entry, dims, stack, ret, status, events, pass>>

NoRet == [t |-> "none"]
Frame(node) == [node |-> node, pc |-> "resolve", i |-> 1, acc |-> <<>>]
Ev(op, arg) == [op |-> op, arg |-> arg]
Evs(ops) == [j \in 1..Len(ops) |-> Ev(ops[j], "")]

Top == stack[Len(stack)]
Running == status = "run" /\ stack # <<>>

\* the frame goes on as f
Continue(f) ==
  /\ stack' = [stack EXCEPT ![Len(stack)] = f]
  /\ ret' = NoRet
  /\ status' = status

\* the frame goes on as f and calls child.resolve(context)
Call(f, child) ==
  /\ stack' = Append([stack EXCEPT ![Len(stack)] = f], Frame(child))
  /\ ret' = NoRet
  /\ status' = status

\* return v
Return(v) ==
  /\ stack' = SubSeq(stack, 1, Len(stack) - 1)
  /\ ret' = v
  /\ status' = IF Len(stack) = 1 THEN "done" ELSE status

\* throw e: nothing in this file catches, every frame is abandoned
Throw(e) ==
  /\ stack' = <<>>
  /\ ret' = e
  /\ status' = "error"

\* CssNode.resolve(context)
resolve ==
  /\ Running
  /\ Top.pc = "resolve"
  /\ IF isConst(Top.node)
       THEN /\ Return(Top.node)
            /\ events' = events
       ELSE /\ Continue([Top EXCEPT !.pc = "calc"])
            /\ events' = Append(events, Ev("calc", Top.node.t))
  /\ UNCHANGED <<root, ctx, entry, dims, pass>>

\* CssConcatNode.calc(context)
CssConcatNode_calc ==
  /\ Running
  /\ Top.node.t = "Concat"
  /\ \/ /\ Top.pc = "calc"
        /\ IF Top.i <= Len(Top.node.array)
             THEN /\ Call([Top EXCEPT !.pc = "wait"], Top.node.array[Top.i])
                  /\ events' = events
             ELSE /\ Return(CssConcatNode(Top.acc))
                  /\ events' = Append(events, Ev("new", "Concat"))
     \/ /\ Top.pc = "wait"
        /\ ret # NoRet
        /\ IF ret # Null
             THEN Continue([Top EXCEPT !.pc = "calc", !.i = @ + 1,
                                       !.acc = Append(@, ret)])
             ELSE Return(Null)
        /\ events' = events
  /\ UNCHANGED <<root, ctx, entry, dims, pass>>

\* what the host's resolveUrl may answer
ResolvedUrls ==
  { <<"h", "t", "t", "p", "s", ":", "b">>,
    <<"h", "t", "t", "p", ":", "b">>,
    <<"j", "s", ":", "b">> }

\* `url("${url}")`
UrlCss(url) == <<"u", "r", "l", "(", "\"">> \o url \o <<"\"", ")">>

\* Mutant: the resolved url is returned as a url node.
CssUrlNode_calc_ReturnsUrlNode ==
  /\ Running
  /\ Top.node.t = "Url"
  /\ Top.pc = "calc"
  /\ \E url \in ResolvedUrls :
       Return(CssUrlNode(url))
  /\ events' = events \o <<Ev("resolveUrl", ""), Ev("new", "Url")>>
  /\ UNCHANGED <<root, ctx, entry, dims, pass>>

\* CssUrlNode.calc(context)
CssUrlNode_calc ==
  /\ Running
  /\ Top.node.t = "Url"
  /\ Top.pc = "calc"
  /\ \E url \in ResolvedUrls :
       Return(CssPassthroughNode(UrlCss(url)))
  /\ events' = events \o <<Ev("resolveUrl", ""), Ev("new", "Passthrough")>>
  /\ UNCHANGED <<root, ctx, entry, dims, pass>>

\* this.dimensions_ && i < this.dimensions_.length (i counted from 1 here)
HasDimension(node, i) ==
  ~node.dimensions.isNull /\ i <= Len(node.dimensions.list)

\* Mutant: a null argument returns before the dimension is popped.
CssFuncNode_calc_ReturnBeforePop ==
  /\ Running
  /\ Top.node.t = "Func"
  /\ \/ /\ Top.pc = "calc"
        /\ IF Top.i <= Len(Top.node.args)
             THEN /\ Call([Top EXCEPT !.pc = "wait"], Top.node.args[Top.i])
                  /\ IF HasDimension(Top.node, Top.i)
                       THEN LET dim == Top.node.dimensions.list[Top.i]
                            IN  /\ dims' = pushDimension(dims, dim)
                                /\ events' =
                                     Append(events, Ev("pushDimension", dim))
                       ELSE UNCHANGED <<dims, events>>
             ELSE /\ Return(CssFuncNode(Top.node.name, Top.acc, NoDimensions))
                  /\ events' = Append(events, Ev("new", "Func"))
                  /\ dims' = dims
     \/ /\ Top.pc = "wait"
        /\ ret # NoRet
        /\ IF ret # Null
             THEN /\ Continue([Top EXCEPT !.pc = "calc", !.i = @ + 1,
                                          !.acc = Append(@, ret)])
                  /\ IF HasDimension(Top.node, Top.i)
                       THEN /\ dims' = popDimension(dims)
                            /\ events' = Append(events, Ev("popDimension", ""))
                       ELSE UNCHANGED <<dims, events>>
             ELSE /\ Return(Null)
                  /\ UNCHANGED <<dims, events>>
  /\ UNCHANGED <<root, ctx, entry, pass>>

\* CssFuncNode.calc(context)
CssFuncNode_calc ==
  /\ Running
  /\ Top.node.t = "Func"
  /\ \/ /\ Top.pc = "calc"
        /\ IF Top.i <= Len(Top.node.args)
             THEN /\ Call([Top EXCEPT !.pc = "wait"], Top.node.args[Top.i])
                  /\ IF HasDimension(Top.node, Top.i)
                       THEN LET dim == Top.node.dimensions.list[Top.i]
                            IN  /\ dims' = pushDimension(dims, dim)
                                /\ events' =
                                     Append(events, Ev("pushDimension", dim))
                       ELSE UNCHANGED <<dims, events>>
             ELSE /\ Return(CssFuncNode(Top.node.name, Top.acc, NoDimensions))
                  /\ events' = Append(events, Ev("new", "Func"))
                  /\ dims' = dims
     \/ /\ Top.pc = "wait"
        /\ ret # NoRet
        /\ IF HasDimension(Top.node, Top.i)
             THEN /\ dims' = popDimension(dims)
                  /\ events' = Append(events, Ev("popDimension", ""))
             ELSE UNCHANGED <<dims, events>>
        /\ IF ret # Null
             THEN Continue([Top EXCEPT !.pc = "calc", !.i = @ + 1,
                                       !.acc = Append(@, ret)])
             ELSE Return(Null)
  /\ UNCHANGED <<root, ctx, entry, pass>>

\* Mutant: the default stands in for a variable whose node resolves to null.
CssVarNode_calc_DefaultOnNull ==
  /\ Running
  /\ Top.node.t = "Var"
  /\ \/ /\ Top.pc = "calc"
        /\ LET varNode == getVar(ctx, Top.node.varName)
           IN  IF varNode # Null
                 THEN Call([Top EXCEPT !.pc = "wait", !.i = 1], varNode)
               ELSE IF Top.node.def # Null
                 THEN Call([Top EXCEPT !.pc = "wait", !.i = 2], Top.node.def)
               ELSE Return(Null)
        /\ events' = Append(events, Ev("getVar", Top.node.varName))
     \/ /\ Top.pc = "wait"
        /\ ret # NoRet
        /\ IF ret = Null /\ Top.i = 1 /\ Top.node.def # Null
             THEN Call([Top EXCEPT !.pc = "wait", !.i = 2], Top.node.def)
             ELSE Return(ret)
        /\ events' = events
  /\ UNCHANGED <<root, ctx, entry, dims, pass>>

\* CssVarNode.calc(context); the frame's i is 1 while the variable's node is
\* resolved and 2 while the default is
CssVarNode_calc ==
  /\ Running
  /\ Top.node.t = "Var"
  /\ \/ /\ Top.pc = "calc"
        /\ LET varNode == getVar(ctx, Top.node.varName)
           IN  IF varNode # Null
                 THEN Call([Top EXCEPT !.pc = "wait", !.i = 1], varNode)
               ELSE IF Top.node.def # Null
                 THEN Call([Top EXCEPT !.pc = "wait", !.i = 2], Top.node.def)
               ELSE Return(Null)
        /\ events' = Append(events, Ev("getVar", Top.node.varName))
     \/ /\ Top.pc = "wait"
        /\ ret # NoRet
        /\ Return(ret)
        /\ events' = events
  /\ UNCHANGED <<root, ctx, entry, dims, pass>>

\* CssCalcNode.calc(context)
CssCalcNode_calc ==
  /\ Running
  /\ Top.node.t = "Calc"
  /\ \/ /\ Top.pc = "calc"
        /\ Call([Top EXCEPT !.pc = "wait"], Top.node.expr)
     \/ /\ Top.pc = "wait"
        /\ ret # NoRet
        /\ Return(ret)
  /\ UNCHANGED <<root, ctx, entry, dims, events, pass>>

\* return v, a node just constructed, or null; throw v, an Error
Finish(v) == IF IsError(v) THEN Throw(v) ELSE Return(v)
Constructed(v) ==
  IF IsError(v) \/ v = Null THEN <<>> ELSE <<Ev("new", v.t)>>

\* CssCalcSumNode.calc(context)
CssCalcSumNode_calc ==
  /\ Running
  /\ Top.node.t = "CalcSum"
  /\ \/ /\ Top.pc = "calc"
        /\ Call([Top EXCEPT !.pc = "wait"],
                IF Top.i = 1 THEN Top.node.left ELSE Top.node.right)
        /\ events' = events
     \/ /\ Top.pc = "wait"
        /\ ret # NoRet
        /\ Top.i = 1
        /\ Continue([Top EXCEPT !.pc = "calc", !.i = 2, !.acc = <<ret>>])
        /\ events' = events
     \/ /\ Top.pc = "wait"
        /\ ret # NoRet
        /\ Top.i = 2
        /\ LET r == CalcSum(Top.acc[1], ret, Top.node.op, ctx, dims)
           IN  /\ Finish(r.out)
               /\ events' = events \o Evs(r.ops) \o Constructed(r.out)
  /\ UNCHANGED <<root, ctx, entry, dims, pass>>

\* CssCalcProductNode.calc(context)
CssCalcProductNode_calc ==
  /\ Running
  /\ Top.node.t = "CalcProduct"
  /\ \/ /\ Top.pc = "calc"
        /\ Call([Top EXCEPT !.pc = "wait"],
                IF Top.i = 1 THEN Top.node.left ELSE Top.node.right)
        /\ events' = events
     \/ /\ Top.pc = "wait"
        /\ ret # NoRet
        /\ Top.i = 1
        /\ Continue([Top EXCEPT !.pc = "calc", !.i = 2, !.acc = <<ret>>])
        /\ events' = events
     \/ /\ Top.pc = "wait"
        /\ ret # NoRet
        /\ Top.i = 2
        /\ LET v == CalcProduct(Top.acc[1], ret, Top.node.op)
           IN  /\ Finish(v)
               /\ events' = events \o Constructed(v)
  /\ UNCHANGED <<root, ctx, entry, dims, pass>>

(***************************************************************************)
(* The inputs: the trees a parser can build and the contexts a host can    *)
(* supply, within the bounds below.                                        *)
(***************************************************************************)
\* unitless numbers 0..MaxNum
MaxNum == 2
\* arguments of a function, members of a concatenation
MaxArgs == 2
\* dimensions already on the context's stack when resolve() is called
MaxEntryDepth == 1
\* resolve() calls in a row, each on the result of the one before
MaxPasses == 2

\* the sequences over S of length lo..hi
SeqsOf(S, lo, hi) == UNION { [1..n -> S] : n \in lo..hi }

Red == <<"r", "e", "d">>
Numbers == { CssNumberNode(Num(i)) : i \in 0..MaxNum }
Percents == { CssPercentNode(Num(50)) }
Lengths ==
  { CssLengthNode(Num(50), <<"P", "X">>), CssLengthNode(Num(2), EM),
    CssLengthNode(Num(1), REM), CssLengthNode(Num(10), VW),
    CssLengthNode(Num(10), VH), CssLengthNode(Num(10), VMIN),
    CssLengthNode(Num(10), VMAX), CssLengthNode(Num(1), <<"c", "m">>) }
Angles ==
  { CssAngleNode(Num(180), DEG), CssAngleNode(Num(1), RAD),
    CssAngleNode(Num(100), GRAD), CssAngleNode(Num(1), <<"t", "u", "r", "n">>) }
Times == { CssTimeNode(Num(1), SEC), CssTimeNode(Num(500), MS) }
Numerics == Numbers \cup Percents \cup Lengths \cup Angles \cup Times

Px50 == CssLengthNode(Num(50), PX)
Pct50 == CssPercentNode(Num(50))
VarMissing == CssVarNode("--missing", Null)
VarA == CssVarNode("--a", Null)
VarBOrPx == CssVarNode("--b", Px50)
HttpUrl == CssUrlNode(<<"h", "t", "t", "p", ":", "a">>)
\* 50px + 50%, 50% - 2em
PxPlusPct == CssCalcSumNode(Px50, Pct50, "+")
PctMinusEm == CssCalcSumNode(Pct50, CssLengthNode(Num(2), EM), "-")
\* 50px + 1rad: incompatible operands
PxPlusRad == CssCalcSumNode(Px50, CssAngleNode(Num(1), RAD), "+")
\* 50px / 0: not finite
PxByZero == CssCalcProductNode(Px50, CssNumberNode(Num(0)), "/")

Constants ==
  Numerics \cup
  { CssPassthroughNode(Red), CssUrlNode(<<>>),
    CssUrlNode(<<"h", "t", "t", "p", "s", ":", "a">>),
    CssUrlNode(<<"D", "a", "t", "a", ":", "a">>) }

\* calc() operands that are not numeric leaves
Operands ==
  { Px50, Pct50, CssNumberNode(Num(0)), CssPassthroughNode(Red),
    VarMissing, VarA, PxPlusRad, PxByZero }

NumericCalcs ==
  { CssCalcSumNode(l, r, op) :
      l \in Numerics, r \in Numerics, op \in {"+", "-"} } \cup
  { CssCalcProductNode(l, r, op) :
      l \in Numerics, r \in Numerics, op \in {"*", "/"} }

OperandCalcs ==
  { CssCalcSumNode(l, r, op) :
      l \in Operands, r \in Operands, op \in {"+", "-"} } \cup
  { CssCalcProductNode(l, r, op) :
      l \in Operands, r \in Operands, op \in {"*", "/"} }

PercentSums ==
  { CssCalcSumNode(l, p, op) : l \in Numerics, p \in Percents,
                               op \in {"+", "-"} } \cup
  { CssCalcSumNode(p, l, op) : l \in Numerics, p \in Percents,
                               op \in {"+", "-"} }

ArgPool == { Px50, PxPlusPct, PctMinusEm, VarA, VarMissing, PxPlusRad }
Suffixes == { <<>>, <<"x">>, <<"y">>, <<"z">>, <<"3", "d">> }
Funcs ==
  { CssTranslateNode(sfx, args) :
      sfx \in Suffixes, args \in SeqsOf(ArgPool, 1, MaxArgs) } \cup
  { CssFuncNode(<<"R", "g", "b">>, args, NoDimensions) :
      args \in SeqsOf(ArgPool, 0, MaxArgs) }

\* a dimension-tagged function as an argument of another
InnerFuncs ==
  { CssTranslateNode(sfx, <<a>>) :
      sfx \in { <<"y">>, <<"z">> }, a \in { PxPlusPct, VarMissing, PxPlusRad } }
NestedFuncs ==
  { CssTranslateNode(sfx, <<f>> \o rest) :
      sfx \in { <<>>, <<"x">> }, f \in InnerFuncs,
      rest \in { <<>>, <<PxPlusPct>> } }

ConcatPool ==
  { CssPassthroughNode(Red), Px50, VarMissing, VarA, VarBOrPx, HttpUrl,
    PxPlusRad, CssUrlNode(<<"D", "a", "t", "a", ":", "a">>) }
Concats == { CssConcatNode(array) : array \in SeqsOf(ConcatPool, 0, MaxArgs) }

VarNames == { "--a", "--b", "--missing" }
Defaults ==
  { Null, Px50, HttpUrl, PxPlusPct, CssVarNode("--b", Null),
    CssTranslateNode(<<"y">>, <<PxPlusPct>>) }
Vars == { CssVarNode(v, d) : v \in VarNames, d \in Defaults }

Calcs == { CssCalcNode(e) : e \in ArgPool \cup { PxByZero } }

TreeRoots ==
  Constants \cup NestedFuncs \cup Concats \cup Vars \cup Calcs \cup { HttpUrl }

\* what the variables are bound to; --missing never is.  A binding may
\* refer to --b from --a and not back: the bindings are acyclic.
Bindings ==
  { [v \in VarNames |-> Null],
    [v \in VarNames |->
       IF v = "--a" THEN Px50
       ELSE IF v = "--b" THEN VarMissing ELSE Null],
    [v \in VarNames |->
       IF v = "--a" THEN CssTranslateNode(<<"y">>, <<PxPlusPct>>)
       ELSE IF v = "--b" THEN CssNumberNode(Num(2)) ELSE Null],
    [v \in VarNames |->
       IF v = "--a" THEN CssCalcSumNode(CssVarNode("--b", Null), Px50, "+")
       ELSE IF v = "--b" THEN Pct50 ELSE Null],
    [v \in VarNames |->
       IF v = "--a" THEN PxPlusRad
       ELSE IF v = "--b" THEN HttpUrl ELSE Null] }

ElementSizes ==
  { [width |-> Num(200), height |-> Num(100)],
    [width |-> Num(30), height |-> Num(0)] }

Context(bindings, size) ==
  [vars |-> bindings, fontSize |-> Num(10), rootFontSize |-> Num(16),
   viewport |-> [width |-> Num(400), height |-> Num(300)], element |-> size]

Dims == { "w", "h", "z" }
EntryStacks == SeqsOf(Dims, 0, MaxEntryDepth)

Unbound == [v \in VarNames |-> Null]
Size200x100 == [width |-> Num(200), height |-> Num(100)]
Contexts == { Context(b, Size200x100) : b \in Bindings }

\* <<root, ctx, entry>>
Scenarios ==
  (NumericCalcs \X { Context(Unbound, Size200x100) } \X { <<>> })
  \cup
  (PercentSums \X { Context(Unbound, e) : e \in ElementSizes } \X EntryStacks)
  \cup
  (OperandCalcs \X Contexts \X { <<>> })
  \cup
  (Funcs \X Contexts \X { <<"h">> })
  \cup
  (TreeRoots \X Contexts \X { <<>>, <<"h">> })

Init ==
  /\ \E s \in Scenarios :
       /\ root = s[1]
       /\ ctx = s[2]
       /\ entry = s[3]
  /\ dims = entry
  /\ stack = <<Frame(root)>>
  /\ ret = NoRet
  /\ status = "run"
  /\ events = <<>>
  /\ pass = 1

\* The caller resolves the node it was given once more, as a consumer of a
\* resolved tree may.
ResolveAgain ==
  /\ status = "done"
  /\ ret # Null
  /\ pass < MaxPasses
  /\ root' = ret
  /\ pass' = pass + 1
  /\ stack' = <<Frame(ret)>>
  /\ ret' = NoRet
  /\ status' = "run"
  /\ events' = <<>>
  /\ entry' = dims
  /\ UNCHANGED <<ctx, dims>>

Next ==
  \/ resolve
  \/ CssConcatNode_calc
  \/ CssUrlNode_calc
  \/ CssFuncNode_calc
  \/ CssVarNode_calc
  \/ CssCalcNode_calc
  \/ CssCalcSumNode_calc
  \/ CssCalcProductNode_calc
  \/ ResolveAgain

Spec == Init /\ [][Next]_vars

(***************************************************************************)
(* Properties.                                                             *)
(***************************************************************************)
Terminated == status \in {"done", "error"}
CountOp(op) == Cardinality({ j \in DOMAIN events : events[j].op = op })

\* The tags of the dimension-tagged argument positions being resolved by the
\* frames of st, the outermost first.
RECURSIVE ActiveTags(_)
ActiveTags(st) ==
  IF st = <<>> THEN <<>>
  ELSE LET f == Head(st)
       IN  (IF f.node.t = "Func" /\ f.pc = "wait" /\ HasDimension(f.node, f.i)
              THEN <<f.node.dimensions.list[f.i]>>
              ELSE <<>>) \o ActiveTags(Tail(st))

\* C1: while a resolve call runs and when it has returned (a node or null),
\* the context's dimension stack is the stack at entry followed by the tags
\* of the argument positions being resolved, outermost first, and the pushes
\* exceed the pops by exactly that many; so a call that has returned has
\* popped as often as it pushed and left the stack as it found it.
C1_DimensionStack ==
  status \in {"run", "done"} =>
    /\ dims = entry \o ActiveTags(stack)
    /\ CountOp("pushDimension") =
         CountOp("popDimension") + Len(ActiveTags(stack))

\* A call that returned null after pushing in two nested functions, the
\* inner one reached through a var().
C1_Witness ==
  /\ status = "done"
  /\ ret = Null
  /\ entry # <<>>
  /\ CountOp("pushDimension") >= 3
  /\ CountOp("getVar") >= 1

\* C2: when a fatal error reaches the caller, the stack is the stack before
\* the call and there were as many pops as pushes.
C2_BalancedOnError ==
  status = "error" =>
    /\ dims = entry
    /\ CountOp("pushDimension") = CountOp("popDimension")

\* Frame k of the stack has been handed null by a child: the call it waits
\* for has just returned null, or (CalcSum, CalcProduct) its left operand
\* resolved to null earlier.
NullChild(k) ==
  \/ k = Len(stack) /\ stack[k].pc = "wait" /\ ret = Null
  \/ /\ stack[k].node.t \in {"CalcSum", "CalcProduct"}
     /\ stack[k].acc = <<Null>>
NullPoisons == {"Concat", "Func", "CalcSum", "CalcProduct"}

\* Concat([A, var(v)]) for a constant A and a variable v without a default
\* that the context does not bind.
IsConstPlusMissing ==
  /\ root.t = "Concat"
  /\ Len(root.array) = 2
  /\ isConst(root.array[1])
  /\ root.array[2].t = "Var"
  /\ root.array[2].def = Null
  /\ getVar(ctx, root.array[2].varName) = Null

\* C3 as stated: a Concat, FunctionCall, CalcSum or CalcProduct that has been
\* handed null by a child resolves to null, and no fatal error is raised.
C3_NullPropagation_Original ==
  /\ [][\A k \in 1..Len(stack) :
          (stack[k].node.t \in NullPoisons /\ NullChild(k)) =>
            /\ status' # "error"
            /\ Len(stack') < k => ret' = Null]_vars
  /\ [](IsConstPlusMissing /\ Terminated => status = "done" /\ ret = Null)

\* C3 as amended: a Concat or FunctionCall that is handed null by a child,
\* and a CalcSum or CalcProduct both of whose operands are resolved and one
\* of them is null, returns null and raises nothing (also when the other
\* operand is not numeric).  A CalcSum or CalcProduct whose left operand is
\* null still resolves its right operand; a fatal error raised inside that
\* resolution propagates, and otherwise the node returns null.
C3_NullPropagation ==
  /\ [][\A k \in 1..Len(stack) :
          (stack[k].node.t \in NullPoisons /\ NullChild(k)) =>
            /\ (status' # "error" /\ Len(stack') < k) => ret' = Null
            /\ status' = "error" =>
                 /\ k < Len(stack)
                 /\ stack[k].node.t \in {"CalcSum", "CalcProduct"}
                 /\ stack[k].pc = "wait"
                 /\ stack[k].i = 2]_vars
  /\ [](IsConstPlusMissing /\ Terminated => status = "done" /\ ret = Null)

\* red + var(--missing) has returned null: the null operand won over the
\* operand that is not numeric.
C3_Witness ==
  /\ status = "done"
  /\ ret = Null
  /\ root = CssCalcSumNode(CssPassthroughNode(Red), VarMissing, "+")

\* The percent case of a sum: one operand a length L, the other a percent.
IsLengthPercentSum(n) ==
  /\ n.t = "CalcSum"
  /\ IsNumeric(n.left)
  /\ IsNumeric(n.right)
  /\ {n.left.type, n.right.type} = {"LEN", "PRC"}
SupportedLengthUnits == {PX, EM, REM, VW, VH, VMIN, VMAX}
LengthOf(n) == IF n.left.type = "LEN" THEN n.left ELSE n.right
PercentOf(n) == IF n.left.type = "PRC" THEN n.left ELSE n.right

\* What the sum n is to yield when the top of the dimension stack is d:
\* the percent p as p/100 * side in px, added to or subtracted from L in px.
ExpectedPercentSum(n, d) ==
  LET side == IF d = "w" THEN ctx.element.width
              ELSE IF d = "h" THEN ctx.element.height
              ELSE Num(0)
      pct == NumMul(NumMul(PercentOf(n).num, Frac(1, 100)), side)
      len == norm(LengthOf(n), ctx).out.num
      sign == IF n.op = "+" THEN Num(1) ELSE Num(-1)
  IN  CssLengthNode(
        IF n.left.type = "LEN" THEN NumAdd(len, NumMul(sign, pct))
        ELSE NumAdd(pct, NumMul(sign, len)),
        PX)

TopOfEntry == IF entry = <<>> THEN "none" ELSE entry[Len(entry)]

\* translate(a, b) over two percent sums in supported units
IsTranslateOfPercentSums ==
  /\ root.t = "Func"
  /\ root.dimensions = Dimensions(<<"w", "h">>)
  /\ Len(root.args) = 2
  /\ \A j \in 1..2 :
       /\ IsLengthPercentSum(root.args[j])
       /\ LengthOf(root.args[j]).units \in SupportedLengthUnits

TranslatePercents ==
  IsTranslateOfPercentSums /\ Terminated =>
    /\ status = "done"
    /\ ret = CssFuncNode(root.name,
               <<ExpectedPercentSum(root.args[1], "w"),
                 ExpectedPercentSum(root.args[2], "h")>>, NoDimensions)

\* C4 as stated: a sum of a length and a percent always yields a px length,
\* the percent taken of the side the top of the dimension stack names.
C4_PercentResolution_Original ==
  /\ IsLengthPercentSum(root) /\ Terminated =>
       /\ status = "done"
       /\ IsNumeric(ret)
       /\ ret.type = "LEN"
       /\ ret.units = PX
       /\ LengthOf(root).units \in SupportedLengthUnits =>
            ret = ExpectedPercentSum(root, TopOfEntry)
  /\ TranslatePercents

\* C4 as amended: the same for a length in px or in a unit norm converts
\* (em, rem, vw, vh, vmin, vmax); for a length in any other unit the
\* evaluation is the fatal error "unknown units".
C4_PercentResolution ==
  /\ IsLengthPercentSum(root) /\ Terminated =>
       IF LengthOf(root).units \in SupportedLengthUnits
         THEN /\ status = "done"
              /\ ret = ExpectedPercentSum(root, TopOfEntry)
         ELSE /\ status = "error"
              /\ ret = unknownUnits(LengthOf(root).units)
  /\ TranslatePercents

\* 50px + 50% on a 200x100 element under dimension w is 150px.
C4_Witness ==
  /\ root = CssCalcSumNode(Px50, Pct50, "+")
  /\ ctx.element = [width |-> Num(200), height |-> Num(100)]
  /\ entry = <<"w">>
  /\ status = "done"
  /\ ret = CssLengthNode(Num(150), PX)

\* A sum or product whose operands are numeric leaves.
IsNumericCalc(n, t) == n.t = t /\ IsNumeric(n.left) /\ IsNumeric(n.right)
Sign(op) == IF op = "+" THEN Num(1) ELSE Num(-1)
CanonicalUnits(type) ==
  CASE type = "LEN" -> PX
    [] type = "ANG" -> RAD
    [] type = "TME" -> MS
NormOps == {"getCurrentFontSize", "getRootFontSize", "getViewportSize"}

\* root is a sum of two numeric leaves, neither a percent
IsPlainSum ==
  /\ IsNumericCalc(root, "CalcSum")
  /\ ~IsPercent(root.left)
  /\ ~IsPercent(root.right)

\* C5, the first two cases: different categories are a fatal error; equal
\* categories and equal units give left + sign * right in that unit, and
\* norm is not applied.
PlainSumBasics ==
  IsPlainSum /\ Terminated =>
    /\ root.left.type # root.right.type =>
         /\ status = "error"
         /\ ret = Error("left and right must be the same type", <<>>)
    /\ (root.left.type = root.right.type
          /\ root.left.units = root.right.units) =>
         /\ status = "done"
         /\ ret = [root.left EXCEPT
                     !.num = NumAdd(root.left.num,
                               NumMul(Sign(root.op), root.right.num))]
         /\ \A j \in DOMAIN events : events[j].op \notin NormOps

\* equal categories, different units
IsMixedUnitsSum ==
  /\ IsPlainSum
  /\ root.left.type = root.right.type
  /\ root.left.units # root.right.units

NormalizedSum ==
  [t |-> "Numeric", type |-> root.left.type,
   num |-> NumAdd(norm(root.left, ctx).out.num,
             NumMul(Sign(root.op), norm(root.right, ctx).out.num)),
   units |-> CanonicalUnits(root.left.type)]

\* C5 as stated: with equal categories and different units the result is
\* always norm(left) + sign * norm(right) in the canonical unit.
C5_CalcSum_Original ==
  /\ PlainSumBasics
  /\ IsMixedUnitsSum /\ Terminated =>
       /\ status = "done"
       /\ ret.units = CanonicalUnits(root.left.type)
       /\ (~IsError(norm(root.left, ctx).out)
             /\ ~IsError(norm(root.right, ctx).out)) => ret = NormalizedSum

\* C5 as amended: with equal categories and different units the result is
\* norm(left) + sign * norm(right) in the canonical unit when norm converts
\* both units; when it does not convert the unit of one of them (cm, turn)
\* the evaluation is the fatal error "unknown units".
C5_CalcSum ==
  /\ PlainSumBasics
  /\ IsMixedUnitsSum /\ Terminated =>
       IF /\ ~IsError(norm(root.left, ctx).out)
          /\ ~IsError(norm(root.right, ctx).out)
         THEN status = "done" /\ ret = NormalizedSum
         ELSE /\ status = "error"
              /\ ret.msg = "unknown units: "
              /\ ret.detail \in {root.left.units, root.right.units}

\* 180deg - 1rad is (PI - 1)rad
C5_Witness ==
  /\ root = CssCalcSumNode(CssAngleNode(Num(180), DEG),
                           CssAngleNode(Num(1), RAD), "-")
  /\ status = "done"
  /\ ret = CssAngleNode(Fin(Rat(-1, 1), Rat(1, 1)), RAD)

\* The product of two numeric leaves has the category and units of base and
\* the magnitude base * multi.
IsProductOf(base, multi) ==
  /\ status = "done"
  /\ ret = [base EXCEPT !.num = NumMul(base.num, multi)]

\* C6 as stated: a product with op * succeeds if and only if exactly one
\* operand is a unitless number, and the other operand supplies the category
\* and the unit; every other combination is a fatal error.
C6_Multiplication_Original ==
  (IsNumericCalc(root, "CalcProduct") /\ root.op = "*" /\ Terminated) =>
    IF IsNumber(root.left) /\ ~IsNumber(root.right)
      THEN IsProductOf(root.right, root.left.num)
    ELSE IF IsNumber(root.right) /\ ~IsNumber(root.left)
      THEN IsProductOf(root.left, root.right.num)
    ELSE status = "error"

\* C6 as amended: a product with op * succeeds if and only if at least one
\* operand is a unitless number; the other operand supplies the category and
\* the unit (two unitless numbers give a unitless number) and the magnitudes
\* are multiplied.  Only two operands neither of which is a unitless number
\* are a fatal error.
C6_Multiplication ==
  (IsNumericCalc(root, "CalcProduct") /\ root.op = "*" /\ Terminated) =>
    IF IsNumber(root.left)
      THEN IsProductOf(root.right, root.left.num)
    ELSE IF IsNumber(root.right)
      THEN IsProductOf(root.left, root.right.num)
    ELSE /\ status = "error"
         /\ ret = Error("one of sides in multiplication must be a number",
                        <<>>)

\* 2 * 2 is 4
C6_Witness ==
  /\ root = CssCalcProductNode(CssNumberNode(Num(2)), CssNumberNode(Num(2)),
                               "*")
  /\ status = "done"
  /\ ret = CssNumberNode(Num(4))

\* C7: a division by the unitless number 0 is null for every numeric left
\* operand (a left magnitude of 0 too); a divisor that is not a unitless
\* number is a fatal error; a unitless divisor d # 0 gives left's magnitude
\* times 1/d in left's category and unit.
C7_Division ==
  (IsNumericCalc(root, "CalcProduct") /\ root.op = "/" /\ Terminated) =>
    IF ~IsNumber(root.right)
      THEN /\ status = "error"
           /\ ret = Error("denominator must be a number", <<>>)
    ELSE IF root.right.num = Num(0)
      THEN status = "done" /\ ret = Null
    ELSE IsProductOf(root.left,
           Fin(Rat(root.right.num.q[2], root.right.num.q[1]), RatZero))

\* 0 / 0 has returned null
C7_Witness ==
  /\ root = CssCalcProductNode(CssNumberNode(Num(0)), CssNumberNode(Num(0)),
                               "/")
  /\ status = "done"
  /\ ret = Null

\* The nodes that are constant: a passthrough, a numeric leaf, a url that
\* is empty or starts with data: or https: in any case of letters, and a
\* concatenation or function all of whose children are constant.
HasFinalScheme(url) ==
  \E n \in 1..Len(url) :
    toLowerCase(SubSeq(url, 1, n)) \in
      { <<"d", "a", "t", "a", ":">>, <<"h", "t", "t", "p", "s", ":">> }

RECURSIVE IsConstantNode(_)
IsConstantNode(n) ==
  CASE n.t \in {"Passthrough", "Numeric"} -> TRUE
    [] n.t = "Url" -> n.url = <<>> \/ HasFinalScheme(n.url)
    [] n.t = "Concat" ->
         \A j \in 1..Len(n.array) : IsConstantNode(n.array[j])
    [] n.t = "Func" -> \A j \in 1..Len(n.args) : IsConstantNode(n.args[j])
    [] OTHER -> FALSE

\* C8: a result that is not null is constant; resolving it again returns
\* it, invokes no context operation (resolveUrl among them), enters no
\* calc() and constructs nothing, whatever resolveUrl answered before.
C8_Idempotence ==
  /\ (status = "done" /\ ret # Null) => IsConstantNode(ret)
  /\ pass > 1 =>
       /\ events = <<>>
       /\ status # "error"
       /\ status = "done" => ret = root

\* The url http:a was resolved to http:b, which is neither data: nor
\* https:, and the resulting passthrough was resolved again.
C8_Witness ==
  /\ pass = 2
  /\ status = "done"
  /\ ret = CssPassthroughNode(UrlCss(<<"h", "t", "t", "p", ":", "b">>))

\* C9: resolve on a constant node returns that node, invokes no context
\* operation, enters no calc() and constructs no node; calc() is never
\* entered for a constant node at any depth; resolve on a node that is not
\* constant starts by entering its calc().
C9_ResolveOnConstants ==
  /\ IsConstantNode(root) =>
       /\ events = <<>>
       /\ dims = entry
       /\ status = "run" => stack = <<Frame(root)>>
       /\ status # "run" => status = "done" /\ ret = root
  /\ \A k \in 1..Len(stack) :
       stack[k].pc # "resolve" => ~IsConstantNode(stack[k].node)
  /\ (~IsConstantNode(root) /\ Terminated) =>
       /\ events # <<>>
       /\ events[1] = Ev("calc", root.t)

\* A concatenation of a url with an upper-case Data: scheme and a length
\* has been resolved in the first pass.
C9_Witness ==
  /\ pass = 1
  /\ status = "done"
  /\ root = CssConcatNode(<<CssUrlNode(<<"D", "a", "t", "a", ":", "a">>),
                            Px50>>)
  /\ ret = root
  /\ events = <<>>

\* The first-pass root is var(v, d).
IsVarRoot == pass = 1 /\ root.t = "Var"

\* C10: a var() evaluation looks its name up exactly once; the default is
\* resolved only when the lookup found nothing; what the resolution of the
\* found node (or of the default) returns is returned as it is, a null
\* included, with nothing looked up or resolved after it.
C10_VarLookup ==
  /\ [](\A k \in 1..Len(stack) :
          (stack[k].node.t = "Var" /\ stack[k].pc = "wait") =>
            IF getVar(ctx, stack[k].node.varName) # Null
              THEN stack[k].i = 1
              ELSE stack[k].i = 2 /\ stack[k].node.def # Null)
  /\ [](CountOp("getVar")
          + (IF Running /\ Top.node.t = "Var" /\ Top.pc = "calc"
               THEN 1 ELSE 0)
        = Cardinality({ j \in DOMAIN events : events[j] = Ev("calc", "Var") }))
  /\ [][(Running /\ Top.node.t = "Var" /\ Top.pc = "wait") =>
          /\ stack' = SubSeq(stack, 1, Len(stack) - 1)
          /\ ret' = ret
          /\ events' = events]_vars
  /\ [][(Running /\ Top.node.t = "Var" /\ Top.pc = "calc") =>
          /\ events' = Append(events, Ev("getVar", Top.node.varName))
          /\ LET found == getVar(ctx, Top.node.varName)
             IN  Len(stack') > Len(stack) =>
                   stack'[Len(stack')].node =
                     IF found # Null THEN found ELSE Top.node.def]_vars
  /\ [](IsVarRoot /\ Terminated =>
          LET found == getVar(ctx, root.varName)
          IN  /\ found = VarMissing => status = "done" /\ ret = Null
              /\ (found # Null /\ IsConstantNode(found)) =>
                   status = "done" /\ ret = found
              /\ (found = Null /\ root.def = Null) =>
                   status = "done" /\ ret = Null
              /\ (found = Null /\ root.def # Null
                    /\ IsConstantNode(root.def)) =>
                   status = "done" /\ ret = root.def)

\* var(--b, 50px) has returned null: --b is bound to a node that resolves
\* to null, and the default was not used.
C10_Witness ==
  /\ root = VarBOrPx
  /\ getVar(ctx, "--b") = VarMissing
  /\ status = "done"
  /\ ret = Null

=============================================================================
